---------------------------- MODULE Spec2Model ----------------------------
(***************************************************************************)
(* The assertion-repair scripts of persistence-lib.                        *)
(*                                                                         *)
(* A document is content.split('\n'): a sequence of lines.  A line is a    *)
(* sequence of lexemes: every punctuation character is a lexeme of its     *)
(* own, and a run of word characters is one or more word lexemes, cut so   *)
(* that every literal of every regular expression and every substring      *)
(* test of the scripts is a whole number of lexemes ("BeTrue" is "Be",     *)
(* "True" because the scripts match Be(\w+)).  No lexeme holds a newline,  *)
(* so split and join are the identity on this representation.              *)
(*                                                                         *)
(* Regular expressions are data (a sequence of atoms) run by a             *)
(* backtracking matcher with Python's priorities: a greedy repetition      *)
(* tries the longest run first, a lazy one the shortest, and the first     *)
(* success wins.                                                           *)
(***************************************************************************)
EXTENDS Integers, Sequences, FiniteSets, TLC

VARIABLES script, lines, fixed_lines, i, j, lambda_lines, pc, runs

vars == <<script, lines, fixed_lines, i, j, lambda_lines, pc, runs>>

-----------------------------------------------------------------------------
(* Lexemes and character classes *)

Punct == {"(", ")", "{", "}", "<", ">", "=", ".", ";", " ", "[", "]",
          "\"", "'", "/", "&"}

Digits == {"0", "1"}

Words == {"Should", "Throw", "Be", "True", "False", "Greater", "Less", "Than",
          "OrEqualTo", "OnOr", "After", "Before", "Time", "Date", "First",
          "Contains", "Contain", "All", "sql", "results", "entities", "items",
          "list", "entries", "var", "Action", "act", "Act", "Assert",
          "a", "b", "c", "d", "r", "v", "foo", "T", "W"} \cup Digits

Alphabet == Punct \cup Words

AnyCh == Alphabet                \* .
SpaceCh == {" "}                 \* \s
WordCh == Words                  \* \w
DigitCh == Digits                \* \d
NotGt == Alphabet \ {">"}        \* [^>]
NotRp == Alphabet \ {")"}        \* [^)]
NotDq == Alphabet \ {"\""}       \* [^"]

-----------------------------------------------------------------------------
(* Regular expressions as data *)

Atom(kind, cls, lo, many, lazy, g) ==
    [k |-> kind, cls |-> cls, lo |-> lo, many |-> many, lazy |-> lazy, g |-> g]

One(cls) == <<Atom("rep", cls, 1, FALSE, FALSE, 0)>>        \* c
Opt(cls) == <<Atom("rep", cls, 0, FALSE, FALSE, 0)>>        \* c?
Star(cls) == <<Atom("rep", cls, 0, TRUE, FALSE, 0)>>        \* c*
Plus(cls) == <<Atom("rep", cls, 1, TRUE, FALSE, 0)>>        \* c+
LazyStar(cls) == <<Atom("rep", cls, 0, TRUE, TRUE, 0)>>     \* c*?
LazyPlus(cls) == <<Atom("rep", cls, 1, TRUE, TRUE, 0)>>     \* c+?
Eol == <<Atom("eol", {}, 0, FALSE, FALSE, 0)>>              \* $
Cap(g, re) == <<Atom("open", {}, 0, FALSE, FALSE, g)>> \o re
              \o <<Atom("close", {}, 0, FALSE, FALSE, g)>>  \* ( ... )
Lits(toks) == [n \in 1..Len(toks) |-> Atom("rep", {toks[n]}, 1, FALSE, FALSE, 0)]

MaxGroups == 5

NoCaps == [g \in 1..MaxGroups |-> [s |-> 0, e |-> 0]]

NoMatch == [ok |-> FALSE, start |-> 0, end |-> 0, caps |-> NoCaps]

RECURSIVE RunLen(_, _, _, _)
\* how many lexemes of s from position p on are in cls, at most cap
RunLen(cls, s, p, cap) ==
    IF cap = 0 \/ p > Len(s) \/ s[p] \notin cls THEN 0
    ELSE 1 + RunLen(cls, s, p + 1, cap - 1)

\* the one element of a singleton set: a value bound through a set is computed once
The(S) == CHOOSE x \in S : TRUE

RECURSIVE MatchFrom(_, _, _, _, _, _)
RECURSIVE TryRep(_, _, _, _, _, _, _, _, _)

\* re[k..] against s from position p; p0 is where the match began
MatchFrom(re, k, s, p0, p, caps) ==
    IF k > Len(re) THEN [ok |-> TRUE, start |-> p0, end |-> p, caps |-> caps]
    ELSE CASE re[k].k = "open" ->
                MatchFrom(re, k + 1, s, p0, p, [caps EXCEPT ![re[k].g].s = p])
           [] re[k].k = "close" ->
                MatchFrom(re, k + 1, s, p0, p, [caps EXCEPT ![re[k].g].e = p])
           [] re[k].k = "eol" ->
                IF p = Len(s) + 1 THEN MatchFrom(re, k + 1, s, p0, p, caps)
                ELSE NoMatch
           [] re[k].lo = 1 /\ ~re[k].many ->
                IF p <= Len(s) /\ s[p] \in re[k].cls
                THEN MatchFrom(re, k + 1, s, p0, p + 1, caps)
                ELSE NoMatch
           [] OTHER ->
                The({IF run < re[k].lo THEN NoMatch
                     ELSE IF re[k].lazy THEN TryRep(re, k, s, p0, p, caps, re[k].lo, run, 1)
                     ELSE TryRep(re, k, s, p0, p, caps, run, re[k].lo, -1) :
                     run \in {RunLen(re[k].cls, s, p, IF re[k].many THEN Len(s) ELSE 1)}})

\* the repetition re[k] taking n lexemes, then n + step, ... up to last
TryRep(re, k, s, p0, p, caps, n, last, step) ==
    The({IF m.ok THEN m
         ELSE IF n = last THEN NoMatch
         ELSE TryRep(re, k, s, p0, p, caps, n + step, last, step) :
         m \in {MatchFrom(re, k + 1, s, p0, p + n, caps)}})

\* re.match(re, s)
ReMatch(re, s) == The({MatchFrom(re, 1, line, 1, 1, NoCaps) : line \in {s}})

RECURSIVE SearchFrom(_, _, _)
\* the leftmost match of re in s that starts at p or later
SearchFrom(re, s, p) ==
    IF p > Len(s) + 1 THEN NoMatch
    ELSE The({IF m.ok THEN m ELSE SearchFrom(re, s, p + 1) :
              m \in {MatchFrom(re, 1, s, p, p, NoCaps)}})

\* re.search(re, s)
ReSearch(re, s) == The({SearchFrom(re, line, 1) : line \in {s}})

\* match.group(g)
Group(s, m, g) == SubSeq(s, m.caps[g].s, m.caps[g].e - 1)

\* a replacement template: literal lexemes and \g references
Txt(toks) == [n \in 1..Len(toks) |-> [g |-> 0, tok |-> toks[n]]]
Ref(g) == <<[g |-> g, tok |-> ""]>>

RECURSIVE Expand(_, _, _)
Expand(tmpl, s, m) ==
    IF tmpl = <<>> THEN <<>>
    ELSE (IF Head(tmpl).g = 0 THEN <<Head(tmpl).tok>> ELSE Group(s, m, Head(tmpl).g))
         \o Expand(Tail(tmpl), s, m)

RECURSIVE SubFrom(_, _, _, _)
SubFrom(re, tmpl, s, p) ==
    The({IF ~m.ok THEN SubSeq(s, p, Len(s))
         ELSE SubSeq(s, p, m.start - 1) \o Expand(tmpl, s, m) \o SubFrom(re, tmpl, s, m.end) :
         m \in {SearchFrom(re, s, p)}})

\* re.sub(re, tmpl, s): every pattern of the scripts holds a literal, so no
\* match is empty
ReSub(re, tmpl, s) == The({SubFrom(re, tmpl, line, 1) : line \in {s}})

RECURSIVE FindFrom(_, _, _)
\* the first position p or later where the lexemes sub occur in s, 0 if none
FindFrom(sub, s, p) ==
    IF p + Len(sub) - 1 > Len(s) THEN 0
    ELSE IF SubSeq(s, p, p + Len(sub) - 1) = sub THEN p
    ELSE FindFrom(sub, s, p + 1)

\* sub in s
In(sub, s) == The({FindFrom(sub, line, 1) # 0 : line \in {s}})

RECURSIVE Flatten(_)
\* ''.join(ls)
Flatten(ls) == IF ls = <<>> THEN <<>> ELSE Head(ls) \o Flatten(Tail(ls))

-----------------------------------------------------------------------------
(* fix_exception_assertions.py *)

SHOULD == <<".", "Should", "(", ")">>                 \* .Should()
SHOULD_THROW == SHOULD \o <<".", "Throw">>            \* .Should().Throw
OPENING == <<"(", "(", ")", " ", "=", ">">>            \* (() =>
OPENING_BRACE == OPENING \o <<" ", "{">>                \* (() => {
CLOSE_THROW == <<"}", ")">> \o SHOULD_THROW           \* }).Should().Throw
CLOSE == <<"}", ")", ";">>                            \* });
ACT_ASSERT == <<"/", "/", " ", "Act", " ", "&", " ", "Assert">>   \* // Act & Assert
ACTION_ACT == <<"Action", " ", "act", " ", "=", " ", "(", ")", " ", "=", ">">>
ActThrow(type) == <<"act">> \o SHOULD_THROW \o <<"<">> \o type \o <<">">>

\* ^(\s*)\(\(\) => (.*?)\)\.Should\(\)\.Throw<([^>]+)>\(\)(.*?)$
Pattern1 ==
    Cap(1, Star(SpaceCh)) \o Lits(OPENING \o <<" ">>) \o Cap(2, LazyStar(AnyCh))
    \o Lits(<<")">> \o SHOULD_THROW \o <<"<">>) \o Cap(3, Plus(NotGt))
    \o Lits(<<">", "(", ")">>) \o Cap(4, LazyStar(AnyCh)) \o Eol

\* ^(\s*)\(\(\) => (.*?)\.Should\(\)\.Throw<([^>]+)>\(\)\);?$
Pattern2 ==
    Cap(1, Star(SpaceCh)) \o Lits(OPENING \o <<" ">>) \o Cap(2, LazyStar(AnyCh))
    \o Lits(SHOULD_THROW \o <<"<">>) \o Cap(3, Plus(NotGt))
    \o Lits(<<">", "(", ")", ")">>) \o Opt({";"}) \o Eol

\* ^(\s*)var\s+\w+\s*=\s*(.*?)\.Should\(\)\.Throw<([^>]+)>\(\);?$
Pattern4 ==
    Cap(1, Star(SpaceCh)) \o Lits(<<"var">>) \o Plus(SpaceCh) \o Plus(WordCh)
    \o Star(SpaceCh) \o Lits(<<"=">>) \o Star(SpaceCh) \o Cap(2, LazyStar(AnyCh))
    \o Lits(SHOULD_THROW \o <<"<">>) \o Cap(3, Plus(NotGt))
    \o Lits(<<">", "(", ")">>) \o Opt({";"}) \o Eol

\* ^(\s*)
IndentRe == Cap(1, Star(SpaceCh))

\* \.Should\(\)\.Throw<([^>]+)>
ThrowRe == Lits(SHOULD_THROW \o <<"<">>) \o Cap(1, Plus(NotGt)) \o Lits(<<">">>)

\* code.split('.Should()')[0]
BeforeShould(code) ==
    IF In(SHOULD, code) THEN SubSeq(code, 1, FindFrom(SHOULD, code, 1) - 1) ELSE code

\* the three lines appended for the match m of pattern 1
Pattern1Lines(line) ==
    The({ << Group(line, m, 1) \o ACT_ASSERT,
             Group(line, m, 1) \o ACTION_ACT \o <<" ">> \o BeforeShould(Group(line, m, 2))
                 \o <<";">>,
             Group(line, m, 1) \o ActThrow(Group(line, m, 3)) \o <<"(", ")">>
                 \o Group(line, m, 4) >> :
          m \in {ReMatch(Pattern1, line)} })

\* the three lines appended for the match m of pattern 2 or of pattern 4
StatementLines(re, line) ==
    The({ << Group(line, m, 1) \o ACT_ASSERT,
             Group(line, m, 1) \o ACTION_ACT \o <<" ">> \o Group(line, m, 2) \o <<";">>,
             Group(line, m, 1) \o ActThrow(Group(line, m, 3)) \o <<"(", ")", ";">> >> :
          m \in {ReMatch(re, line)} })

\* lines[k], k counted from 0 as the script counts
At(k) == lines[k + 1]

HasLambda(line) == In(OPENING_BRACE, line) \/ In(OPENING, line)

HasClose(line) == In(CLOSE_THROW, line) \/ In(CLOSE, line)

\* the body taken from the opening line on: range(i, j) for range(i + 1, j)
LambdaBodyFromOpening == SubSeq(lines, i + 1, j)

\* lambda_body: lines[i+1 .. j-1]
LambdaBody == SubSeq(lines, i + 2, j)

\* the condition of the block rewrite, once the inner loop has ended at j
BlockFound ==
    /\ j < Len(lines)
    /\ In(SHOULD_THROW, Flatten(lambda_lines))
    /\ ReSearch(ThrowRe, At(j)).ok

\* the lines appended for the block i..j
BlockLines ==
    The({ << indent \o ACT_ASSERT, indent \o ACTION_ACT, indent \o <<"{">> >>
          \o LambdaBody
          \o << indent \o <<"}", ";">>,
                indent \o ActThrow(Group(At(j), throw_match, 1)) \o <<"(", ")", ";">> >> :
          indent \in {Group(At(i), ReMatch(IndentRe, At(i)), 1)},
          throw_match \in {ReSearch(ThrowRe, At(j))} })

Scanning == script = "fix_exception_assertions" /\ pc = "scan" /\ i < Len(lines)

\* lines 16-29
ScanPattern1 ==
    /\ Scanning
    /\ ReMatch(Pattern1, At(i)).ok
    /\ fixed_lines' = fixed_lines \o Pattern1Lines(At(i))
    /\ i' = i + 1
    /\ UNCHANGED <<script, lines, j, lambda_lines, pc, runs>>

\* lines 33-40
ScanPattern2 ==
    /\ Scanning
    /\ ~ReMatch(Pattern1, At(i)).ok
    /\ ReMatch(Pattern2, At(i)).ok
    /\ fixed_lines' = fixed_lines \o StatementLines(Pattern2, At(i))
    /\ i' = i + 1
    /\ UNCHANGED <<script, lines, j, lambda_lines, pc, runs>>

NoSingleLambda == ~ReMatch(Pattern1, At(i)).ok /\ ~ReMatch(Pattern2, At(i)).ok

\* lines 43-49: the opening marker starts the inner loop at j = i
EnterBlock ==
    /\ Scanning
    /\ NoSingleLambda
    /\ HasLambda(At(i))
    /\ j' = i
    /\ lambda_lines' = <<>>
    /\ pc' = "in_block"
    /\ UNCHANGED <<script, lines, fixed_lines, i, runs>>

\* lines 50-54: one iteration of the inner loop
Accumulate ==
    /\ pc = "in_block"
    /\ j < Len(lines)
    /\ lambda_lines' = Append(lambda_lines, At(j))
    /\ IF HasClose(At(j)) THEN pc' = "closed" /\ j' = j
       ELSE pc' = "in_block" /\ j' = j + 1
    /\ UNCHANGED <<script, lines, fixed_lines, i, runs>>

\* the inner loop, run off the end of the document, falls back on the last line
UnterminatedTakesLastLine ==
    /\ pc = "in_block"
    /\ j >= Len(lines)
    /\ pc' = "closed"
    /\ j' = Len(lines) - 1
    /\ UNCHANGED <<script, lines, fixed_lines, i, lambda_lines, runs>>

\* line 50: the inner loop ends at the end of the document
Unterminated ==
    /\ pc = "in_block"
    /\ j >= Len(lines)
    /\ pc' = "closed"
    /\ UNCHANGED <<script, lines, fixed_lines, i, j, lambda_lines, runs>>

\* the scan resumed on the closing line: i = j for i = j + 1
RewriteBlockResumesAtClose ==
    /\ pc = "closed"
    /\ BlockFound
    /\ fixed_lines' = fixed_lines \o BlockLines
    /\ i' = j
    /\ pc' = "scan"
    /\ UNCHANGED <<script, lines, j, lambda_lines, runs>>

\* lines 56-75
RewriteBlock ==
    /\ pc = "closed"
    /\ BlockFound
    /\ fixed_lines' = fixed_lines \o BlockLines
    /\ i' = j + 1
    /\ pc' = "scan"
    /\ UNCHANGED <<script, lines, j, lambda_lines, runs>>

\* pattern 4 and the pass-through are reached with no lambda on the line, or
\* after a block that was not rewritten
AtPattern4 == (Scanning /\ NoSingleLambda /\ ~HasLambda(At(i)))
              \/ (pc = "closed" /\ ~BlockFound)

\* lines 78-85
ScanPattern4 ==
    /\ AtPattern4
    /\ ReMatch(Pattern4, At(i)).ok
    /\ fixed_lines' = fixed_lines \o StatementLines(Pattern4, At(i))
    /\ i' = i + 1
    /\ pc' = "scan"
    /\ UNCHANGED <<script, lines, j, lambda_lines, runs>>

\* lines 87-88
PassThrough ==
    /\ AtPattern4
    /\ ~ReMatch(Pattern4, At(i)).ok
    /\ fixed_lines' = Append(fixed_lines, At(i))
    /\ i' = i + 1
    /\ pc' = "scan"
    /\ UNCHANGED <<script, lines, j, lambda_lines, runs>>

\* line 90 and process_file: the result is the file's new content
Return ==
    /\ pc = "scan"
    /\ i >= Len(lines)
    /\ pc' = "done"
    /\ runs' = Append(runs, [script |-> script, content |-> lines, result |-> fixed_lines])
    /\ UNCHANGED <<script, lines, fixed_lines, i, j, lambda_lines>>

-----------------------------------------------------------------------------
(* The line rules of the other scripts *)

BE_TRUE == <<".", "Be", "True", "(", ")">>                        \* .BeTrue()
BE_FALSE == <<".", "Be", "False", "(", ")">>                      \* .BeFalse()
SHOULD_BE_TRUE == SHOULD \o BE_TRUE                               \* .Should().BeTrue()
SHOULD_BE_FALSE == SHOULD \o BE_FALSE                             \* .Should().BeFalse()
Be(method) == SHOULD \o <<".", "Be">> \o method \o <<"(">>        \* .Should().Be<method>(

LESS_THAN == <<"Less", "Than">>
GREATER_THAN == <<"Greater", "Than">>
LESS_THAN_OR_EQUAL_TO == <<"Less", "Than", "OrEqualTo">>
LESS_OR_EQUAL_TO == <<"Less", "OrEqualTo">>
GREATER_THAN_OR_EQUAL_TO == <<"Greater", "Than", "OrEqualTo">>
GREATER_OR_EQUAL_TO == <<"Greater", "OrEqualTo">>
ON_OR_BEFORE == <<"OnOr", "Before">>
ON_OR_AFTER == <<"OnOr", "After">>
BEFORE == <<"Before">>
AFTER == <<"After">>

\* re.sub(r'\.Should\(\)\.Be<from>\(', r'.Should().Be<to>(', line)
Rename(from, to, line) == ReSub(Lits(Be(from)), Txt(Be(to)), line)

\* 'Time' in line or 'Date' in line
Temporal(line) == In(<<"Time">>, line) \/ In(<<"Date">>, line)

\* ^(\s*)\((.+?)\s*<op>\s*(.+?)\)\.Should\(\)\.BeTrue\(\)
Compared(op) ==
    Cap(1, Star(SpaceCh)) \o Lits(<<"(">>) \o Cap(2, LazyPlus(AnyCh)) \o Star(SpaceCh)
    \o Lits(<<op>>) \o Star(SpaceCh) \o Cap(3, LazyPlus(AnyCh))
    \o Lits(<<")">> \o SHOULD_BE_TRUE)

\* fix_datetime_assertions, lines 21-24 and 26-29
TemporalComparison(op, method, line) ==
    LET match == ReMatch(Compared(op), line) IN
    IF match.ok /\ Temporal(line)
    THEN Group(line, match, 1) \o Group(line, match, 2) \o Be(method)
         \o Group(line, match, 3) \o <<")">>
    ELSE line

\* fix_datetime_assertions, the body of the loop
DatetimeLine(line) ==
    LET l1 == Rename(LESS_THAN_OR_EQUAL_TO, ON_OR_BEFORE, line)
        l2 == Rename(LESS_OR_EQUAL_TO, ON_OR_BEFORE, l1)
        l3 == Rename(GREATER_THAN_OR_EQUAL_TO, ON_OR_AFTER, l2)
        l4 == Rename(GREATER_OR_EQUAL_TO, ON_OR_AFTER, l3)
        l5 == Rename(LESS_THAN, BEFORE, l4)
        l6 == Rename(GREATER_THAN, AFTER, l5)
        l7 == TemporalComparison(">", AFTER, l6)
    IN  TemporalComparison("<", BEFORE, l7)

\* fix_numeric_assertions, the body of the loop ('DateTime' holds 'Date')
NumericLine(line) ==
    IF ~(In(<<"Date", "Time">>, line) \/ In(<<"Time">>, line) \/ In(<<"Date">>, line))
    THEN LET l1 == Rename(AFTER, GREATER_THAN, line)
             l2 == Rename(BEFORE, LESS_THAN, l1)
             l3 == Rename(ON_OR_AFTER, GREATER_THAN_OR_EQUAL_TO, l2)
         IN  Rename(ON_OR_BEFORE, LESS_THAN_OR_EQUAL_TO, l3)
    ELSE line

\* (\w+)\(\.Should\(\)\.Be(\w+)\(\)\)  ->  \1.Should().Be\2()
Wrapped == Cap(1, Plus(WordCh)) \o Lits(<<"(">> \o SHOULD \o <<".", "Be">>)
           \o Cap(2, Plus(WordCh)) \o Lits(<<"(", ")", ")">>)
WrappedTo == Ref(1) \o Txt(SHOULD \o <<".", "Be">>) \o Ref(2) \o Txt(<<"(", ")">>)

\* \.First\(\.Should\(\)\.Be<True|False>\(\)\.(\w+)\)  ->  .First().\1.Should().Be<True|False>()
First(be) == Lits(<<".", "First", "(">> \o SHOULD \o be \o <<".">>)
             \o Cap(1, Plus(WordCh)) \o Lits(<<")">>)
FirstTo(be) == Txt(<<".", "First", "(", ")", ".">>) \o Ref(1) \o Txt(SHOULD \o be)

\* (\w+)\(\.Should\(\)\.Be<True|False>\(\)\)  ->  \1.Should().Be<True|False>()
WrappedBe(be) == Cap(1, Plus(WordCh)) \o Lits(<<"(">> \o SHOULD \o be \o <<")">>)
WrappedBeTo(be) == Ref(1) \o Txt(SHOULD \o be)

\* (\w+)\.Contains\(<q>([^<q>]+)<q>\.Should\(\)\.BeTrue\(\)\)  ->  \1.Should().Contain(<q>\2<q>)
ContainsQuoted(q) ==
    Cap(1, Plus(WordCh)) \o Lits(<<".", "Contains", "(", q>>)
    \o Cap(2, Plus(Alphabet \ {q})) \o Lits(<<q>> \o SHOULD_BE_TRUE \o <<")">>)
ContainsQuotedTo(q) ==
    Ref(1) \o Txt(SHOULD \o <<".", "Contain", "(", q>>) \o Ref(2) \o Txt(<<q, ")">>)

\* sql\.Contains\(([^)]+)\.Should\(\)\.BeTrue\(\)([^)]*)\)  ->  sql.Should().Contain(\1\2)
SqlContains ==
    Lits(<<"sql", ".", "Contains", "(">>) \o Cap(1, Plus(NotRp))
    \o Lits(SHOULD_BE_TRUE) \o Cap(2, Star(NotRp)) \o Lits(<<")">>)
SqlContainsTo ==
    Txt(<<"sql">> \o SHOULD \o <<".", "Contain", "(">>) \o Ref(1) \o Ref(2) \o Txt(<<")">>)

\* ^(\s*)(.+?)\s*<op>\s*(.+?)\.Should\(\)\.BeTrue\(\)(.*)$
Comparison(op) ==
    Cap(1, Star(SpaceCh)) \o Cap(2, LazyPlus(AnyCh)) \o Star(SpaceCh) \o Lits(<<op>>)
    \o Star(SpaceCh) \o Cap(3, LazyPlus(AnyCh)) \o Lits(SHOULD_BE_TRUE)
    \o Cap(4, Star(AnyCh)) \o Eol

\* fix_remaining_assertions, lines 35-38 and 40-43
ComparisonToAssertion(op, method, line) ==
    LET match == ReMatch(Comparison(op), line) IN
    IF match.ok
    THEN Group(line, match, 1) \o Group(line, match, 2) \o Be(method)
         \o Group(line, match, 3) \o <<")">> \o Group(line, match, 4)
    ELSE line

\* (\s*)(.+?)\s+(.+?)\s*>\s*(.+?)\.Should\(\)\.BeTrue\(\)(.*)$
TrailingComparison ==
    Cap(1, Star(SpaceCh)) \o Cap(2, LazyPlus(AnyCh)) \o Plus(SpaceCh)
    \o Cap(3, LazyPlus(AnyCh)) \o Star(SpaceCh) \o Lits(<<">">>) \o Star(SpaceCh)
    \o Cap(4, LazyPlus(AnyCh)) \o Lits(SHOULD_BE_TRUE) \o Cap(5, Star(AnyCh)) \o Eol

RECURSIVE Strip(_)
\* line.strip()
Strip(line) ==
    IF line # <<>> /\ Head(line) \in SpaceCh THEN Strip(Tail(line))
    ELSE IF line # <<>> /\ line[Len(line)] \in SpaceCh
    THEN Strip(SubSeq(line, 1, Len(line) - 1))
    ELSE line

\* s.endswith(suffix)
EndsWith(s, suffix) ==
    Len(s) >= Len(suffix) /\ SubSeq(s, Len(s) - Len(suffix) + 1, Len(s)) = suffix

\* fix_remaining_assertions, lines 47-53
TrailingComparisonToAssertion(line) ==
    LET match == ReMatch(TrailingComparison, line) IN
    IF In(<<" ", ">", " ">>, line) /\ EndsWith(Strip(line), SHOULD_BE_TRUE) /\ match.ok
    THEN Group(line, match, 1) \o Group(line, match, 2) \o <<" ">> \o Group(line, match, 3)
         \o Be(GREATER_THAN) \o Group(line, match, 4) \o <<")">> \o Group(line, match, 5)
    ELSE line

\* fix_remaining_assertions.fix_assertion_issues, the body of the loop
RemainingLine(line) ==
    LET l1 == ReSub(Wrapped, WrappedTo, line)
        l2 == ReSub(First(BE_TRUE), FirstTo(BE_TRUE), l1)
        l3 == ReSub(First(BE_FALSE), FirstTo(BE_FALSE), l2)
        l4 == ReSub(WrappedBe(BE_TRUE), WrappedBeTo(BE_TRUE), l3)
        l5 == ReSub(WrappedBe(BE_FALSE), WrappedBeTo(BE_FALSE), l4)
        l6 == ReSub(ContainsQuoted("\""), ContainsQuotedTo("\""), l5)
        l7 == ReSub(ContainsQuoted("'"), ContainsQuotedTo("'"), l6)
        l8 == ReSub(SqlContains, SqlContainsTo, l7)
        l9 == ComparisonToAssertion(">", GREATER_THAN, l8)
        l10 == ComparisonToAssertion("<", LESS_THAN, l9)
    IN  TrailingComparisonToAssertion(l10)

\* <name>\[(\d+)\.  ->  <name>[\1].
Unclosed(name) == Lits(name \o <<"[">>) \o Cap(1, Plus(DigitCh)) \o Lits(<<".">>)
UnclosedTo(name) == Txt(name \o <<"[">>) \o Ref(1) \o Txt(<<"]", ".">>)
CloseIndex(name, line) == ReSub(Unclosed(name), UnclosedTo(name), line)

\* \.All\((\w+) =\.Should\(\)\.BeGreaterThan\(([^)]+)\)\)  ->  .All(\1 => \2).Should().BeTrue()
AllLambda ==
    Lits(<<".", "All", "(">>) \o Cap(1, Plus(WordCh)) \o Lits(<<" ", "=">> \o Be(GREATER_THAN))
    \o Cap(2, Plus(NotRp)) \o Lits(<<")", ")">>)
AllLambdaTo ==
    Txt(<<".", "All", "(">>) \o Ref(1) \o Txt(<<" ", "=", ">", " ">>) \o Ref(2)
    \o Txt(<<")">> \o SHOULD_BE_TRUE)

\* fix_lambda_assertions, the body of the loop
LambdaLine(line) ==
    LET l1 == ReSub(AllLambda, AllLambdaTo, line)
        l2 == CloseIndex(<<"results">>, l1)
        l3 == CloseIndex(<<"entities">>, l2)
        l4 == CloseIndex(<<"items">>, l3)
        l5 == CloseIndex(<<"list">>, l4)
    IN  CloseIndex(<<"entries">>, l5)

\* (\w+) =\.Should\(\)\.BeGreaterThan\(([^)]+)\)  ->  \1 => \2).Should().BeTrue(
AnyLambda ==
    Cap(1, Plus(WordCh)) \o Lits(<<" ", "=">> \o Be(GREATER_THAN))
    \o Cap(2, Plus(NotRp)) \o Lits(<<")">>)
AnyLambdaTo ==
    Ref(1) \o Txt(<<" ", "=", ">", " ">>) \o Ref(2)
    \o Txt(<<")">> \o SHOULD \o <<".", "Be", "True", "(">>)

\* fix_final_issues.fix_all_issues, the body of the loop
FinalLine(line) == CloseIndex(<<>>, ReSub(AnyLambda, AnyLambdaTo, line))

\* sql\.Should\(\)\.Contain\(([^)]+)\)\)  ->  sql.Should().Contain(\1)
SqlContain ==
    Lits(<<"sql">> \o SHOULD \o <<".", "Contain", "(">>) \o Cap(1, Plus(NotRp))
    \o Lits(<<")", ")">>)
SqlContainTo == Txt(<<"sql">> \o SHOULD \o <<".", "Contain", "(">>) \o Ref(1) \o Txt(<<")">>)

\* sql\.Should\(\)\.Contain\("([^"]+)"\)\);  ->  sql.Should().Contain("\1");
SqlContainQuoted ==
    Lits(<<"sql">> \o SHOULD \o <<".", "Contain", "(", "\"">>) \o Cap(1, Plus(NotDq))
    \o Lits(<<"\"", ")", ")", ";">>)
SqlContainQuotedTo ==
    Txt(<<"sql">> \o SHOULD \o <<".", "Contain", "(", "\"">>) \o Ref(1)
    \o Txt(<<"\"", ")", ";">>)

\* fix_all_assertion_issues.fix_assertion_issues, the body of the loop
AllIssuesLine(line) ==
    LET l1 == CloseIndex(<<"results">>, line)
        l2 == CloseIndex(<<"entities">>, l1)
        l3 == CloseIndex(<<"items">>, l2)
        l4 == CloseIndex(<<"list">>, l3)
        l5 == ReSub(SqlContain, SqlContainTo, l4)
    IN  ReSub(SqlContainQuoted, SqlContainQuotedTo, l5)

-----------------------------------------------------------------------------
(* Documents given to fix_exception_assertions *)

THROW_T == SHOULD_THROW \o <<"<", "T", ">">>          \* .Should().Throw<T>

\* (() => foo()).Should().Throw<T>();
LineSingle == OPENING \o <<" ", "foo", "(", ")", ")">> \o THROW_T \o <<"(", ")", ";">>
\*  (() => a.Should()).Should().Throw<T>()
LineSingleShould ==
    <<" ">> \o OPENING \o <<" ", "a">> \o SHOULD \o <<")">> \o THROW_T \o <<"(", ")">>
\*  (() => a.Should().Throw<T>());
LineStatement == <<" ">> \o OPENING \o <<" ", "a">> \o THROW_T \o <<"(", ")", ")", ";">>
\*  r = foo(() => {
LineOpen == <<" ", "r", " ", "=", " ", "foo">> \o OPENING_BRACE
\*   a;
LineBody == <<" ", " ", "a", ";">>
\*  }).Should().Throw<T>().W();
LineCloseThrow ==
    <<" ", "}", ")">> \o THROW_T \o <<"(", ")", ".", "W", "(", ")", ";">>
\* });
LineClose == CLOSE
\* r = foo(() => { a; }).Should().Throw<T>();
LineBoth ==
    <<"r", " ", "=", " ", "foo">> \o OPENING_BRACE \o <<" ", "a", ";", " ", "}", ")">>
    \o THROW_T \o <<"(", ")", ";">>
\* var r = a.Should().Throw<T>();
LineVar == <<"var", " ", "r", " ", "=", " ", "a">> \o THROW_T \o <<"(", ")", ";">>
\* act.Should().Throw<T>();
LinePlain == <<"act">> \o THROW_T \o <<"(", ")", ";">>

ExceptionLines ==
    {LineSingle, LineSingleShould, LineStatement, LineOpen, LineBody, LineCloseThrow,
     LineClose, LineBoth, LineVar, LinePlain}

MaxLines == 3

\* the documents of at most n lines, each line from ls
Documents(ls, n) == UNION {[1..k -> ls] : k \in 1..n}

InitException ==
    /\ script = "fix_exception_assertions"
    /\ lines \in Documents(ExceptionLines, MaxLines)
    /\ fixed_lines = <<>>
    /\ i = 0
    /\ j = 0
    /\ lambda_lines = <<>>
    /\ pc = "scan"
    /\ runs = <<>>

NextException ==
    \/ ScanPattern1
    \/ ScanPattern2
    \/ EnterBlock
    \/ Accumulate
    \/ Unterminated
    \/ RewriteBlock
    \/ ScanPattern4
    \/ PassThrough
    \/ Return

SpecException == InitException /\ [][NextException]_vars

-----------------------------------------------------------------------------
(* The line scripts: one line per iteration *)

LineScripts ==
    {"fix_datetime_assertions", "fix_numeric_assertions", "fix_remaining_assertions",
     "fix_lambda_assertions", "fix_final_issues", "fix_all_assertion_issues"}

InLoop(name) == script = name /\ pc = "scan" /\ i < Len(lines)

\* fixed_lines.append(line) at the end of an iteration
AppendLine(line) ==
    /\ fixed_lines' = Append(fixed_lines, line)
    /\ i' = i + 1
    /\ UNCHANGED <<script, lines, j, lambda_lines, pc, runs>>

DatetimeStep == InLoop("fix_datetime_assertions") /\ AppendLine(DatetimeLine(At(i)))

NumericStep == InLoop("fix_numeric_assertions") /\ AppendLine(NumericLine(At(i)))

RemainingStep == InLoop("fix_remaining_assertions") /\ AppendLine(RemainingLine(At(i)))

LambdaStep == InLoop("fix_lambda_assertions") /\ AppendLine(LambdaLine(At(i)))

FinalStep == InLoop("fix_final_issues") /\ AppendLine(FinalLine(At(i)))

AllIssuesStep == InLoop("fix_all_assertion_issues") /\ AppendLine(AllIssuesLine(At(i)))

MaxRuns == 2

\* the scripts run one after another on the same file: a script is run again, the
\* numeric pass follows the temporal pass, and the lambda repair and the
\* remaining-assertions repair follow each other
FollowUps(name) ==
    {name}
    \cup (IF name = "fix_datetime_assertions" THEN {"fix_numeric_assertions"} ELSE {})
    \cup (IF name = "fix_lambda_assertions" THEN {"fix_remaining_assertions"} ELSE {})
    \cup (IF name = "fix_remaining_assertions" THEN {"fix_lambda_assertions"} ELSE {})

\* the next script reads the file the last one wrote
RunNext ==
    /\ pc = "done"
    /\ Len(runs) < MaxRuns
    /\ script' \in FollowUps(script)
    /\ lines' = fixed_lines
    /\ fixed_lines' = <<>>
    /\ i' = 0
    /\ pc' = "scan"
    /\ UNCHANGED <<j, lambda_lines, runs>>

-----------------------------------------------------------------------------
(* Documents given to the line scripts *)

\* [indent](a <op> b).Should().BeTrue()[rest] and the same without parentheses
ComparisonLine(indent, paren, left, op, rest) ==
    indent \o (IF paren THEN <<"(">> ELSE <<>>) \o <<left, " ", op, " ", "b">>
    \o (IF paren THEN <<")">> ELSE <<>>) \o SHOULD_BE_TRUE \o rest

\* ; // Date
DateComment == <<";", " ", "/", "/", " ", "Date">>
\* ; c < d.Should().BeTrue()
SecondLess == <<";", " ", "c", " ", "<", " ", "d">> \o SHOULD_BE_TRUE
\* ; c > d.Should().BeTrue();
SecondGreater == <<";", " ", "c", " ", ">", " ", "d">> \o SHOULD_BE_TRUE \o <<";">>

ComparisonLines ==
    {ComparisonLine(<<>>, paren, left, op, rest) :
        paren \in BOOLEAN, left \in {"a", "Date"}, op \in {">", "<"},
        rest \in {<<>>, <<";">>, DateComment}}
    \cup {ComparisonLine(<<" ">>, TRUE, "a", ">", <<";">>),
          ComparisonLine(<<" ">>, FALSE, "a", "<", <<>>),
          ComparisonLine(<<>>, FALSE, "a", "<", SecondLess),
          ComparisonLine(<<>>, FALSE, "a", ">", SecondGreater)}

\* <left>.Should().Be<method>(0);
AssertionLine(left, method) == <<left>> \o Be(method) \o <<"0", ")", ";">>

AssertionLines ==
    {AssertionLine(left, method) :
        left \in {"a", "Date"},
        method \in {LESS_THAN, GREATER_THAN, LESS_THAN_OR_EQUAL_TO, LESS_OR_EQUAL_TO,
                    GREATER_THAN_OR_EQUAL_TO, GREATER_OR_EQUAL_TO, BEFORE, AFTER,
                    ON_OR_BEFORE, ON_OR_AFTER}}

\* results[0.a.Should().Be(1);
LineIndex == <<"results", "[", "0", ".", "a">> \o SHOULD \o <<".", "Be", "(", "1", ")", ";">>
\* a.entries[1.b;
LineEntries == <<"a", ".", "entries", "[", "1", ".", "b", ";">>
\* a.All(v =.Should().BeGreaterThan(v.b))
LineAllBroken == <<"a", ".", "All", "(", "v", " ", "=">> \o Be(GREATER_THAN) \o <<"v", ".", "b", ")", ")">>
\* a.All(v => v.b).Should().BeTrue()
LineAllLambda ==
    <<"a", ".", "All", "(", "v", " ", "=", ">", " ", "v", ".", "b", ")">> \o SHOULD_BE_TRUE
\* a(.Should().BeTrue())
LineWrappedTrue == <<"a", "(">> \o SHOULD_BE_TRUE \o <<")">>
\* a(.Should().BeFalse());
LineWrappedFalse == <<"a", "(">> \o SHOULD_BE_FALSE \o <<")", ";">>
\* a.First(.Should().BeTrue().b)
LineFirstTrue == <<"a", ".", "First", "(">> \o SHOULD_BE_TRUE \o <<".", "b", ")">>
\* a.First(.Should().BeFalse().b)
LineFirstFalse == <<"a", ".", "First", "(">> \o SHOULD_BE_FALSE \o <<".", "b", ")">>
\* a.Contains("b".Should().BeTrue())
LineContainsDq == <<"a", ".", "Contains", "(", "\"", "b", "\"">> \o SHOULD_BE_TRUE \o <<")">>
\* a.Contains('b'.Should().BeTrue())
LineContainsSq == <<"a", ".", "Contains", "(", "'", "b", "'">> \o SHOULD_BE_TRUE \o <<")">>
\* sql.Contains(a.Should().BeTrue())
LineSqlContains == <<"sql", ".", "Contains", "(", "a">> \o SHOULD_BE_TRUE \o <<")">>
\* sql.Should().Contain(a))
LineSqlContain == <<"sql">> \o SHOULD \o <<".", "Contain", "(", "a", ")", ")">>
\* sql.Should().Contain("a"));
LineSqlContainDq ==
    <<"sql">> \o SHOULD \o <<".", "Contain", "(", "\"", "a", "\"", ")", ")", ";">>
\* a.Should().BeTrue();
LineTrue == <<"a">> \o SHOULD_BE_TRUE \o <<";">>

OtherLines ==
    {LineIndex, LineEntries, LineAllBroken, LineAllLambda, LineWrappedTrue, LineWrappedFalse,
     LineFirstTrue, LineFirstFalse, LineContainsDq, LineContainsSq, LineSqlContains,
     LineSqlContain, LineSqlContainDq, LineTrue, <<>>}

RuleLines == ComparisonLines \cup AssertionLines \cup OtherLines

MaxRuleLines == 2

InitRules ==
    /\ script \in LineScripts
    /\ lines \in Documents(RuleLines, MaxRuleLines)
    /\ fixed_lines = <<>>
    /\ i = 0
    /\ j = 0
    /\ lambda_lines = <<>>
    /\ pc = "scan"
    /\ runs = <<>>

NextRules ==
    \/ DatetimeStep
    \/ NumericStep
    \/ RemainingStep
    \/ LambdaStep
    \/ FinalStep
    \/ AllIssuesStep
    \/ Return
    \/ RunNext

SpecRules == InitRules /\ [][NextRules]_vars

-----------------------------------------------------------------------------
(* Properties of fix_exception_assertions *)

\* the leading white space of a line
LeadingSpaces(line) == SubSeq(line, 1, RunLen(SpaceCh, line, 1, Len(line)))

THROW_OPEN == SHOULD_THROW \o <<"<">>                 \* .Should().Throw<

\* where the type named by the first .Should().Throw< of the line begins and how long it is
TypeStart(line) == FindFrom(THROW_OPEN, line, 1) + Len(THROW_OPEN)
TypeLen(line) == RunLen(NotGt, line, TypeStart(line), Len(line))

\* the line names a type T in .Should().Throw<T>
NamesType(line) ==
    /\ In(THROW_OPEN, line)
    /\ TypeLen(line) > 0
    /\ TypeStart(line) + TypeLen(line) <= Len(line)

TypeNamed(line) == SubSeq(line, TypeStart(line), TypeStart(line) + TypeLen(line) - 1)

\* a line one of the single-line rules rewrites
SingleLineRule(line) ==
    \/ ReMatch(Pattern1, line).ok
    \/ ReMatch(Pattern2, line).ok
    \/ ReMatch(Pattern4, line).ok

\* line k (counted from 1) opens a block that no line from k to the end closes
UnterminatedFrom(k) ==
    /\ In(OPENING, lines[k])
    /\ \A m \in k..Len(lines) : ~HasClose(lines[m])

\* the last Len(lines) - k + 1 lines of the output
OutputTail(k) ==
    SubSeq(fixed_lines, Len(fixed_lines) - (Len(lines) - k), Len(fixed_lines))

ExpectedBlock(open, body, close) ==
    << LeadingSpaces(open) \o <<"/", "/", " ", "Act", " ", "&", " ", "Assert">>,
       LeadingSpaces(open) \o <<"Action", " ", "act", " ", "=", " ", "(", ")", " ", "=", ">">>,
       LeadingSpaces(open) \o <<"{">> >>
    \o body
    \o << LeadingSpaces(open) \o <<"}", ";">>,
          LeadingSpaces(open) \o <<"act", ".", "Should", "(", ")", ".", "Throw", "<">>
              \o TypeNamed(close) \o <<">", "(", ")", ";">> >>

\* the inner loop has stopped on a closing line j after the opening line i, and the
\* closing line names a type
ClosedBlockFound ==
    /\ pc = "closed"
    /\ j > i
    /\ j < Len(lines)
    /\ HasClose(At(j))
    /\ NamesType(At(j))

\* C2: once an opening line i and a later closing line j naming T are found, the span
\* i..j is replaced by the comment line, the wrapper around the lines i+1..j-1 as they
\* were, and the assertion on T.
BlockRewritten ==
    [][ClosedBlockFound =>
          fixed_lines' = fixed_lines
                         \o ExpectedBlock(At(i), SubSeq(lines, i + 2, j), At(j))]_vars

\* the scan is back at the top of the loop right after a block with a body was replaced
BlockRewriteSeen ==
    /\ pc = "scan"
    /\ i = j + 1
    /\ \E o \in 0..(j - 2) :
          /\ HasLambda(At(o))
          /\ HasClose(At(j))
          /\ NamesType(At(j))
          /\ Len(fixed_lines) >= j - o + 4
          /\ SubSeq(fixed_lines, Len(fixed_lines) - (j - o + 3), Len(fixed_lines))
                = ExpectedBlock(At(o), SubSeq(lines, o + 2, j), At(j))

\* a step that emits the replacement of a block: no other step adds more than three lines
EmitsBlock == pc = "closed" /\ Len(fixed_lines') > Len(fixed_lines) + 3

\* what is left of the scan: the lines not yet consumed, then the place in the iteration
Remaining ==
    IF pc = "done" THEN 0
    ELSE 1 + (Len(lines) - i) * (Len(lines) + 3)
           + (CASE pc = "scan" -> Len(lines) + 2
                [] pc = "in_block" -> Len(lines) - j + 1
                [] OTHER -> 0)

\* C7: every iteration of the scan moves the index forward, by one line or, once the
\* block i..j is rewritten, to j + 1; the index changes at no other step and ends at the
\* length of the document, so every line is consumed once; and the scan terminates:
\* every step leaves less of it, and it stops nowhere but at its end.
ScanOrder ==
    /\ [][/\ pc' = "scan" => i' > i
          /\ pc' # "scan" => i' = i
          /\ i' > i => IF EmitsBlock THEN i' = j + 1 /\ j >= i ELSE i' = i + 1
          /\ Remaining' < Remaining]_vars
    /\ [](i <= Len(lines) /\ (pc = "done" => i = Len(lines)))
    /\ [](pc # "done" => ENABLED NextException)

\* a finished run that rewrote a block and went on with the line after its closing line
ScanResumedAfterBlock ==
    /\ pc = "done"
    /\ j + 1 < Len(lines)
    /\ \E o \in 0..(j - 1) :
          /\ HasLambda(At(o))
          /\ HasClose(At(j))
          /\ NamesType(At(j))
          /\ \E n \in 1..Len(fixed_lines) :
                SubSeq(fixed_lines, n, n + j - o + 3)
                    = ExpectedBlock(At(o), SubSeq(lines, o + 2, j), At(j))

\* the words of the sample lines that belong to no marker
Payload == {"a", "r", "foo", "W"}

\* the lines a step has appended to the output
Appended(before, after) == {after[n] : n \in (Len(before) + 1)..Len(after)}

\* C8: the block rule is entered only from an opening line that holds no closing marker,
\* so it never replaces a line holding both markers.
BlockOpensWithoutClose ==
    /\ pc = "in_block" => ~HasClose(At(i))
    /\ pc = "closed" /\ BlockFound => j > i

\* C9: when the block i..j is rewritten, every word of the opening line and of the
\* closing line that is part of no marker is in the lines emitted for the block (stated
\* for a closing line after the opening line: what a line holding both markers loses is
\* C8's).
BlockKeepsText ==
    [][pc = "closed" /\ BlockFound /\ j > i =>
          \A w \in Payload :
              (In(<<w>>, At(i)) \/ In(<<w>>, At(j)))
                  => \E line \in Appended(fixed_lines, fixed_lines') : In(<<w>>, line)]_vars

-----------------------------------------------------------------------------
(* Properties of the line scripts *)

\* the finished runs of a script
RunsOf(name) == {n \in 1..Len(runs) : runs[n].script = name}

\* C3: a script run again on its own output changes nothing; a line with more than one
\* inline comparison is repaired by the first run.
Idempotent ==
    \A n \in 2..Len(runs) :
        runs[n].script = runs[n - 1].script => runs[n].result = runs[n - 1].result

\* a line that holds one of the malformed shapes: an index with no closing bracket, a
\* parenthesis or an equals sign right before .Should(), a comparison or a Contains call
\* on a line with .Should().BeTrue(), a doubled closing parenthesis, a lambda with
\* .Should().Throw
Malformed(line) ==
    \/ \E d \in Digits : In(<<"[", d, ".">>, line)
    \/ In(<<"(">> \o SHOULD, line)
    \/ In(<<"=">> \o SHOULD, line)
    \/ /\ In(SHOULD_BE_TRUE, line) \/ In(SHOULD_BE_FALSE, line)
       /\ In(<<">">>, line) \/ In(<<"<">>, line) \/ In(<<"Contains">>, line)
    \/ In(<<")", ")">>, line)
    \/ In(OPENING, line) /\ In(SHOULD_THROW, line)

\* C4: a document none of whose lines holds a malformed shape is returned as it was.
WellFormedUnchanged ==
    \A n \in 1..Len(runs) :
        (\A k \in 1..Len(runs[n].content) : ~Malformed(runs[n].content[k]))
            => runs[n].result = runs[n].content

\* C5: the temporal pass changes a line only if the line holds a temporal keyword, the
\* numeric pass only if it holds none.
GuardExclusive ==
    /\ \A n \in RunsOf("fix_datetime_assertions") :
          \A k \in 1..Len(runs[n].content) :
              runs[n].result[k] # runs[n].content[k] => Temporal(runs[n].content[k])
    /\ \A n \in RunsOf("fix_numeric_assertions") :
          \A k \in 1..Len(runs[n].content) :
              runs[n].result[k] # runs[n].content[k] => ~Temporal(runs[n].content[k])

\* C6: on a line with no temporal keyword, (a > b).Should().BeTrue() followed by rest
\* becomes a.Should().BeGreaterThan(b) followed by rest, and the mirror for < and
\* BeLessThan.
NumericComparisonRepaired ==
    \A n \in RunsOf("fix_remaining_assertions") :
        \A k \in 1..Len(runs[n].content) :
            \A indent \in {<<>>, <<" ">>}, rest \in {<<>>, <<";">>} :
                /\ runs[n].content[k] = ComparisonLine(indent, TRUE, "a", ">", rest)
                      => runs[n].result[k]
                            = indent \o <<"a", ".", "Should", "(", ")", ".", "Be", "Greater",
                                          "Than", "(", "b", ")">> \o rest
                /\ runs[n].content[k] = ComparisonLine(indent, TRUE, "a", "<", rest)
                      => runs[n].result[k]
                            = indent \o <<"a", ".", "Should", "(", ")", ".", "Be", "Less",
                                          "Than", "(", "b", ")">> \o rest

\* C10: the temporal pass leaves every line's verdict of the guard as it was.
VerdictStable ==
    \A n \in RunsOf("fix_datetime_assertions") :
        \A k \in 1..Len(runs[n].content) :
            Temporal(runs[n].result[k]) = Temporal(runs[n].content[k])

\* C11: a line .All(v =.Should().BeGreaterThan(P)) that the lambda repair has turned
\* into .All(v => P).Should().BeTrue() is left as it is by the remaining-assertions
\* repair run next: the => of the lambda is not taken for a comparison.
RepairKept ==
    \A n \in 2..Len(runs) :
        (runs[n - 1].script = "fix_lambda_assertions"
         /\ runs[n].script = "fix_remaining_assertions")
            => \A k \in 1..Len(runs[n].content) :
                  (ReSearch(AllLambda, runs[n - 1].content[k]).ok
                   /\ runs[n - 1].result[k]
                         = ReSub(AllLambda, AllLambdaTo, runs[n - 1].content[k]))
                      => runs[n].result[k] = runs[n].content[k]

=============================================================================
